---- MODULE Spec2Model ----
(***************************************************************************)
(* Model of deepwave/fwi.py: the batch indexer (extract_batch), the        *)
(* temporal windower (apply_max_time), the time pooling (pool_data), the   *)
(* survey padding (calc_survey_pad) and the training loop (fwi).           *)
(*                                                                         *)
(* Two specifications:                                                     *)
(*   Spec    the control flow of fwi(), one action per loop header or      *)
(*           call, over every configuration within the bounds;             *)
(*   SpecFn  one call of one of the pure helpers on an input drawn from    *)
(*           bounded sets.                                                 *)
(*                                                                         *)
(* The propagator, autograd and the Adam optimizer are external.  A tensor *)
(* that fwi optimises is modelled by the number of optimizer updates that  *)
(* changed it (0 = still the clone of its initial value), its .grad by the *)
(* number of backward() contributions accumulated since the last           *)
(* zero_grad().                                                            *)
(***************************************************************************)
EXTENDS Integers, Sequences, FiniteSets, TLC

\* ---------------------------------------------------------------- bounds
MaxShots == 6
MaxSuperbatches == 3
MaxBatches == 3
MaxEpochs == 2
MaxStages == 2
MaxNumSteps == 2

FnMaxShots == 10
FnMaxSuper == 3
FnMaxBatch == 3
MaxLen == 4
MaxPool == 3
MaxDt == 2
MaxStart == 4
MaxTime == 3
MaxVel == 2
MaxCap == 3
MaxDim == 4

\* ------------------------------------------------------------- arithmetic
Min(a, b) == IF a <= b THEN a ELSE b
Max(a, b) == IF a >= b THEN a ELSE b

\* math.ceil(a / b) for a >= 0, b >= 1
CeilDiv(a, b) == (a + b - 1) \div b

\* int(a / b) for b >= 1: Python's int() truncates towards zero
TruncDiv(a, b) == IF a >= 0 THEN a \div b ELSE -((-a) \div b)

\* ---------------------------------------------------------- extract_batch
SuperbatchSize(num_shots_, num_superbatches_) ==
    CeilDiv(num_shots_, num_superbatches_)

BatchSize(num_shots_, num_superbatches_, num_batches_) ==
    CeilDiv(SuperbatchSize(num_shots_, num_superbatches_), num_batches_)

\* faulty variant: the two strides exchanged
BatchStartSwapped(num_shots_, num_superbatches_, num_batches_, superbatch_idx_, batch_idx_) ==
    Min(superbatch_idx_ * SuperbatchSize(num_shots_, num_superbatches_)
          + batch_idx_ * BatchSize(num_shots_, num_superbatches_, num_batches_),
        num_shots_)

BatchStart(num_shots_, num_superbatches_, num_batches_, superbatch_idx_, batch_idx_) ==
    Min(batch_idx_ * SuperbatchSize(num_shots_, num_superbatches_)
          + superbatch_idx_ * BatchSize(num_shots_, num_superbatches_, num_batches_),
        num_shots_)

\* faulty variant: the end is not limited to num_shots
BatchEndUnclamped(start, batch_size, num_shots_) == start + batch_size

BatchEnd(start, batch_size, num_shots_) == Min(start + batch_size, num_shots_)

\* the (batch_start, batch_end) pair of extract_batch
BatchRange(num_shots_, num_superbatches_, num_batches_, superbatch_idx_, batch_idx_) ==
    LET s == BatchStart(num_shots_, num_superbatches_, num_batches_,
                        superbatch_idx_, batch_idx_)
    IN  <<s, BatchEnd(s, BatchSize(num_shots_, num_superbatches_, num_batches_),
                      num_shots_)>>


\* -------------------------------------------------------------- pool_data
\* line 30: padding = int(start_time / dt) % num_pool (Python's % takes the
\* sign of the divisor).  Times are integers in a common unit, so the
\* quotient start_time / dt is the exact rational.
Padding(start_time, dt, num_pool) == TruncDiv(start_time, dt) % num_pool

\* sample j (1-based) of the time axis with p implicit zeros on both sides
PaddedAt(data, p, j) ==
    IF j > p /\ j <= p + Len(data) THEN data[j - p] ELSE 0

\* torch's pooling output length, stride = kernel = k, ceil_mode off
\* faulty variant: ceil mode over a left-only padding
PoolOutLenCeil(len, k, p) == CeilDiv(len + p, k)

PoolOutLen(len, k, p) == ((len + 2 * p - k) \div k) + 1

RECURSIVE WindowSum(_, _, _, _)
WindowSum(data, p, first, n) ==
    IF n = 0 THEN 0
    ELSE PaddedAt(data, p, first) + WindowSum(data, p, first + 1, n - 1)

\* line 31-32: torch.nn.AvgPool1d(k, padding=p) applied to the time axis.
\* The padding is implicit zeros on both sides and counts in the mean
\* (count_include_pad), so every mean is sum / k: the sums are kept and k
\* is the divisor.  torch rejects a padding above half the kernel and an
\* output without samples.
AvgPool1d(data, k, p) ==
    LET n == PoolOutLen(Len(data), k, p)
    IN  IF p > k \div 2 \/ n < 1
        THEN [ok |-> FALSE, sums |-> <<>>, div |-> k]
        ELSE [ok |-> TRUE,
              sums |-> [i \in 1..n |-> WindowSum(data, p, (i - 1) * k + 1, k)],
              div |-> k]

\* lines 29-33
pool_data(data, num_pool, dt, start_time) ==
    LET r == AvgPool1d(data, num_pool, Padding(start_time, dt, num_pool))
    IN  [ok |-> r.ok, sums |-> r.sums, div |-> r.div,
         new_dt |-> IF r.ok THEN dt * num_pool ELSE 0]

\* --------------------------------------------------------- apply_max_time
\* s[:n] in Python: a negative n counts from the end
PySliceTo(s, n) ==
    IF n >= 0 THEN SubSeq(s, 1, Min(n, Len(s)))
    ELSE SubSeq(s, 1, Max(Len(s) + n, 0))

\* line 60: int(-src_start_time / dt + max_time)
MaxSrcAmpTime(dt, src_start_time, max_time_) ==
    TruncDiv(max_time_ * dt - src_start_time, dt)

\* lines 56-62 (the time axis of batch_data_true is the sequence)
apply_max_time(batch_data_true, src_amp_, dt, src_start_time, max_time_) ==
    <<PySliceTo(batch_data_true, max_time_),
      PySliceTo(src_amp_, MaxSrcAmpTime(dt, src_start_time, max_time_))>>

\* -------------------------------------------------------- calc_survey_pad
RECURSIVE SeqMax(_)
SeqMax(s) ==
    IF Len(s) = 1 THEN s[1] ELSE Max(s[1], SeqMax(Tail(s)))

\* line 67: pad_dist = model.max() * max_time * dt / 2.  Lengths are kept in
\* half units, so the value here is twice pad_dist and the division is exact.
PadDist2(model_vals, max_time_, dt) == SeqMax(model_vals) * max_time_ * dt

\* faulty variant: every entry clamped, the first axis included
ClampAll(pad, ndims, cap2) == [i \in 1..Len(pad) |-> Min(pad[i], cap2)]

\* lines 69-70: survey_pad[2:] clamped from above when ndims > 1
ClampTail(pad, ndims, cap2) ==
    IF ndims > 1
    THEN [i \in 1..Len(pad) |-> IF i > 2 THEN Min(pad[i], cap2) ELSE pad[i]]
    ELSE pad

\* lines 65-71; model_dim is model.dim(), the entries are in half units
calc_survey_pad(max_time_, dt, model_dim, model_vals, max_horiz_survey_pad) ==
    LET ndims == model_dim - 1
        ones == [i \in 1..(2 * ndims) |-> PadDist2(model_vals, max_time_, dt)]
    IN  ClampTail(ones, ndims, 2 * max_horiz_survey_pad)

\* -------------------------------------------------------------- state
VARIABLES
    \* arguments of fwi and fields of the dataset
    num_shots, num_steps, num_max_time, num_epochs, num_superbatches,
    num_batches, invert_source, invert_model,
    \* locals of fwi
    pc, max_time_idx, max_time, epoch, superbatch_idx, batch_idx,
    batch_start, batch_end,
    src_amp, model, src_amp_requires_grad, model_requires_grad,
    src_amp_grad, model_grad, params,
    \* observations of the calls fwi makes
    log, visits, epochs_run, prop_calls, empty_prop_calls,
    \* SpecFn: the helper call made and its result
    call

args == <<num_shots, num_steps, num_max_time, num_epochs, num_superbatches,
          num_batches, invert_source, invert_model>>
loopvars == <<max_time_idx, max_time, epoch, superbatch_idx, batch_idx,
              batch_start, batch_end>>
tensors == <<src_amp, model, src_amp_requires_grad, model_requires_grad, params>>
grads == <<src_amp_grad, model_grad>>
obs == <<log, visits, epochs_run, prop_calls, empty_prop_calls>>
vars == <<args, pc, loopvars, tensors, grads, obs, call>>

NoCall == [fn |-> "none"]

\* ------------------------------------------------------------------ fwi
\* requires_grad_() is called on a tensor iff its invert flag is set
\* faulty variant: gradient tracking enabled whatever the flag
RequiresGradAlways(flag) == TRUE

RequiresGrad(flag) == flag

\* the parameter groups handed to Adam
ParamGroups(inv_source, inv_model) ==
    (IF inv_source THEN {"src_amp"} ELSE {})
      \cup (IF inv_model THEN {"model"} ELSE {})

\* `for max_time_idx in range(1)` is exhausted: the bound is 1, whatever
\* num_max_time is
StageLoopDone(max_time_idx_, num_max_time_) == max_time_idx_ >= 1

\* `for epoch in range(num_epochs)` is exhausted
EpochLoopDone(epoch_, num_epochs_) == epoch_ >= num_epochs_

\* `for superbatch_idx in range(num_superbatches)` is exhausted
SuperbatchLoopDone(superbatch_idx_, num_superbatches_) ==
    superbatch_idx_ >= num_superbatches_

\* faulty variant: the batch loop stops one batch early
BatchLoopDoneEarly(batch_idx_, num_batches_) == batch_idx_ >= num_batches_ - 1

\* `for batch_idx in range(num_batches)` is exhausted
BatchLoopDone(batch_idx_, num_batches_) == batch_idx_ >= num_batches_

InitFwi ==
    /\ num_shots \in 1..MaxShots
    /\ num_steps \in 1..MaxNumSteps
    /\ num_max_time \in 1..MaxStages
    /\ num_epochs \in 1..MaxEpochs
    /\ num_superbatches \in 1..MaxSuperbatches
    /\ num_batches \in 1..MaxBatches
    /\ invert_source \in BOOLEAN
    /\ invert_model \in BOOLEAN
    /\ pc = "setup"
    /\ max_time_idx = 0 /\ max_time = 0 /\ epoch = 0
    /\ superbatch_idx = 0 /\ batch_idx = 0
    /\ batch_start = 0 /\ batch_end = 0
    /\ src_amp = 0 /\ model = 0
    /\ src_amp_requires_grad = FALSE /\ model_requires_grad = FALSE
    /\ src_amp_grad = 0 /\ model_grad = 0
    /\ params = {}
    /\ log = <<>>
    /\ visits = [s \in 0..(num_shots - 1) |-> 0]
    /\ epochs_run = 0 /\ prop_calls = 0 /\ empty_prop_calls = 0

Init == InitFwi /\ call = NoCall

\* lines 94-119: clone the inputs, enable gradient tracking, build the optimizer.
\* With both flags off the parameter list is empty: torch.optim.Adam raises
\* ValueError on it where the library checks, and is an optimizer that
\* updates nothing otherwise; both outcomes are kept.
Setup ==
    /\ pc = "setup"
    /\ src_amp_requires_grad' = RequiresGrad(invert_source)
    /\ model_requires_grad' = RequiresGrad(invert_model)
    /\ params' = ParamGroups(invert_source, invert_model)
    /\ \/ pc' = "stage"
       \/ params' = {} /\ pc' = "failed"
    /\ UNCHANGED <<args, loopvars, src_amp, model, grads, obs, call>>

\* line 122: header of the time-horizon loop
\* lines 123-125: max_time of the stage (survey_pad is a pure function of it)
StageBegin ==
    /\ pc = "stage"
    /\ IF StageLoopDone(max_time_idx, num_max_time)
       THEN /\ pc' = "done"
            /\ UNCHANGED <<max_time, epoch>>
       ELSE /\ max_time' = (max_time_idx + 1) * TruncDiv(num_steps, num_max_time)
            /\ epoch' = 0
            /\ pc' = "epoch"
    /\ UNCHANGED <<args, max_time_idx, superbatch_idx, batch_idx, batch_start,
                   batch_end, tensors, grads, obs, call>>

\* line 126: header of the epoch loop
EpochBegin ==
    /\ pc = "epoch"
    /\ IF EpochLoopDone(epoch, num_epochs)
       THEN /\ max_time_idx' = max_time_idx + 1
            /\ pc' = "stage"
            /\ UNCHANGED <<superbatch_idx, obs>>
       ELSE /\ superbatch_idx' = 0
            /\ log' = <<>>
            /\ visits' = [s \in 0..(num_shots - 1) |-> 0]
            /\ pc' = "superbatch"
            /\ UNCHANGED <<max_time_idx, epochs_run, prop_calls, empty_prop_calls>>
    /\ UNCHANGED <<args, max_time, epoch, batch_idx, batch_start, batch_end,
                   tensors, grads, call>>

\* line 128: header of the superbatch loop; line 129: optimizer.zero_grad();
\* line 143: the epoch's report when the loop is exhausted
SuperbatchBegin ==
    /\ pc = "superbatch"
    /\ IF SuperbatchLoopDone(superbatch_idx, num_superbatches)
       THEN /\ epoch' = epoch + 1
            /\ epochs_run' = epochs_run + 1
            /\ pc' = "epoch"
            /\ UNCHANGED <<batch_idx, grads, log>>
       ELSE /\ src_amp_grad' = 0
            /\ model_grad' = 0
            /\ log' = Append(log, <<"zero_grad", superbatch_idx>>)
            /\ batch_idx' = 0
            /\ pc' = "batch"
            /\ UNCHANGED <<epoch, epochs_run>>
    /\ UNCHANGED <<args, max_time_idx, max_time, superbatch_idx, batch_start,
                   batch_end, tensors, visits, prop_calls, empty_prop_calls, call>>

\* line 130: header of the batch loop; lines 132-135: extract_batch
ExtractBatch ==
    /\ pc = "batch"
    /\ IF BatchLoopDone(batch_idx, num_batches)
       THEN /\ pc' = "step"
            /\ UNCHANGED <<batch_start, batch_end>>
       ELSE LET r == BatchRange(num_shots, num_superbatches, num_batches,
                                superbatch_idx, batch_idx)
            IN  /\ batch_start' = r[1]
                /\ batch_end' = r[2]
                /\ pc' = "run"
    /\ UNCHANGED <<args, max_time_idx, max_time, epoch, superbatch_idx, batch_idx,
                   tensors, grads, obs, call>>

\* lines 136-141 and 148-191: run_batch on the extracted shots.  The
\* propagator is called whatever the number of shots; loss.backward() adds
\* to the .grad of every tensor that tracks gradients.  The windowing and
\* pooling inside run_batch are the helpers of SpecFn; a run in which one of
\* them raises ends there and is not followed further.
RunBatch ==
    /\ pc = "run"
    /\ log' = Append(log, <<"run_batch", batch_idx>>)
    /\ visits' = [s \in 0..(num_shots - 1) |->
                    IF batch_start <= s /\ s < batch_end
                    THEN visits[s] + 1 ELSE visits[s]]
    /\ prop_calls' = prop_calls + 1
    /\ empty_prop_calls' = IF batch_start = batch_end
                           THEN empty_prop_calls + 1 ELSE empty_prop_calls
    /\ src_amp_grad' = IF src_amp_requires_grad THEN src_amp_grad + 1 ELSE src_amp_grad
    /\ model_grad' = IF model_requires_grad THEN model_grad + 1 ELSE model_grad
    /\ batch_idx' = batch_idx + 1
    /\ pc' = "batch"
    /\ UNCHANGED <<args, max_time_idx, max_time, epoch, superbatch_idx,
                   batch_start, batch_end, tensors, epochs_run, call>>

\* line 142: optimizer.step() updates the tensors of the parameter groups
\* that hold a gradient
OptimizerStep ==
    /\ pc = "step"
    /\ log' = Append(log, <<"step", superbatch_idx>>)
    /\ src_amp' = IF "src_amp" \in params /\ src_amp_grad > 0
                  THEN src_amp + 1 ELSE src_amp
    /\ model' = IF "model" \in params /\ model_grad > 0
                THEN model + 1 ELSE model
    /\ superbatch_idx' = superbatch_idx + 1
    /\ pc' = "superbatch"
    /\ UNCHANGED <<args, max_time_idx, max_time, epoch, batch_idx, batch_start,
                   batch_end, src_amp_requires_grad, model_requires_grad, params,
                   grads, visits, epochs_run, prop_calls, empty_prop_calls, call>>

Next ==
    \/ Setup
    \/ StageBegin
    \/ EpochBegin
    \/ SuperbatchBegin
    \/ ExtractBatch
    \/ RunBatch
    \/ OptimizerStep

Spec == Init /\ [][Next]_vars

\* ------------------------------------------------------- claims on fwi
\* the end of an epoch: the superbatch loop is exhausted, the report is due
EpochEnd == pc = "superbatch" /\ superbatch_idx = num_superbatches

\* C1 (as claimed): over one full sweep of the (superbatch_idx, batch_idx)
\* pairs every shot index lies in exactly one of the extracted ranges.
C1_EveryShotOnce ==
    EpochEnd => \A s \in 0..(num_shots - 1) : visits[s] = 1

\* the calls one superbatch makes, in order
RECURSIVE BatchCalls(_, _)
BatchCalls(b, nb) ==
    IF b >= nb THEN <<>> ELSE <<(<<"run_batch", b>>)>> \o BatchCalls(b + 1, nb)

RECURSIVE ExpectedLog(_, _, _)
ExpectedLog(sb, nsb, nb) ==
    IF sb >= nsb THEN <<>>
    ELSE <<(<<"zero_grad", sb>>)>> \o BatchCalls(0, nb) \o <<(<<"step", sb>>)>>
           \o ExpectedLog(sb + 1, nsb, nb)

IsPrefix(s, t) == Len(s) <= Len(t) /\ SubSeq(t, 1, Len(s)) = s

StepCount(l) == Cardinality({i \in 1..Len(l) : l[i][1] = "step"})

\* C3: in every epoch the calls are, per superbatch in order, one
\* zero_grad, then run_batch for batch_idx 0..num_batches-1 with no clear or
\* step in between, then one optimizer step; the step is invoked exactly
\* num_superbatches times per epoch.
C3_SuperbatchOrder ==
    /\ IsPrefix(log, ExpectedLog(0, num_superbatches, num_batches))
    /\ EpochEnd => /\ log = ExpectedLog(0, num_superbatches, num_batches)
                   /\ StepCount(log) = num_superbatches

C3_Witness ==
    /\ EpochEnd /\ epoch = 1
    /\ num_superbatches = 2 /\ num_batches = 3
    /\ StepCount(log) = 2 /\ Len(log) = 10

\* C4: a frozen parameter is in no parameter group and tracks no gradient,
\* its gradient stays zero and its value stays the initial one, up to and
\* including the return of fwi; the other parameter is frozen only by its
\* own flag.
C4_FrozenUntouched ==
    /\ ~invert_source =>
          /\ "src_amp" \notin params /\ ~src_amp_requires_grad
          /\ src_amp_grad = 0 /\ src_amp = 0
    /\ ~invert_model =>
          /\ "model" \notin params /\ ~model_requires_grad
          /\ model_grad = 0 /\ model = 0
    /\ pc \notin {"setup", "failed"} =>
          /\ invert_source => "src_amp" \in params /\ src_amp_requires_grad
          /\ invert_model => "model" \in params /\ model_requires_grad

C4_Witness ==
    /\ pc = "done" /\ prop_calls > 0
    /\ ~invert_source /\ invert_model
    /\ src_amp = 0 /\ src_amp_grad = 0
    /\ model > 0

\* C5 (as claimed): fwi returns only after num_max_time stages of
\* num_epochs epochs each.
C5_AllStagesRun ==
    pc = "done" => /\ max_time_idx = num_max_time
                   /\ epochs_run = num_max_time * num_epochs

\* C9 (as claimed): an empty shot range reaches no propagator call.
C9_EmptyBatchSkipped == empty_prop_calls = 0

\* ------------------------------------------------ calls of the helpers
\* the fwi variables while only a helper is called
FwiIdle ==
    /\ num_shots = 1 /\ num_steps = 1 /\ num_max_time = 1 /\ num_epochs = 1
    /\ num_superbatches = 1 /\ num_batches = 1
    /\ invert_source = TRUE /\ invert_model = TRUE
    /\ pc = "idle"
    /\ max_time_idx = 0 /\ max_time = 0 /\ epoch = 0
    /\ superbatch_idx = 0 /\ batch_idx = 0
    /\ batch_start = 0 /\ batch_end = 0
    /\ src_amp = 0 /\ model = 0
    /\ src_amp_requires_grad = FALSE /\ model_requires_grad = FALSE
    /\ src_amp_grad = 0 /\ model_grad = 0
    /\ params = {}
    /\ log = <<>>
    /\ visits = [s \in 0..0 |-> 0]
    /\ epochs_run = 0 /\ prop_calls = 0 /\ empty_prop_calls = 0

fwivars == <<args, pc, loopvars, tensors, grads, obs>>

InitFn == FwiIdle /\ call = NoCall

\* a time axis of len samples, each sample named by its position
Samples(len) == [i \in 1..len |-> i]

\* time series over the amplitudes 1 and 2
Series == UNION {[1..len -> {1, 2}] : len \in 0..MaxLen}

CallExtractBatch ==
    /\ call = NoCall
    /\ \E n \in 1..FnMaxShots, nsb \in 1..FnMaxSuper, nb \in 1..FnMaxBatch :
         \E sb \in 0..(nsb - 1), b \in 0..(nb - 1) :
            LET r == BatchRange(n, nsb, nb, sb, b)
            IN  call' = [fn |-> "extract_batch", num_shots |-> n,
                         num_superbatches |-> nsb, num_batches |-> nb,
                         superbatch_idx |-> sb, batch_idx |-> b,
                         batch_start |-> r[1], batch_end |-> r[2]]
    /\ UNCHANGED fwivars

CallPoolData ==
    /\ call = NoCall
    /\ \E data \in Series, k \in 1..MaxPool, dt \in 1..MaxDt,
          st \in (-MaxStart)..MaxStart :
         call' = [fn |-> "pool_data", data |-> data, num_pool |-> k, dt |-> dt,
                  start_time |-> st, out |-> pool_data(data, k, dt, st)]
    /\ UNCHANGED fwivars

CallApplyMaxTime ==
    /\ call = NoCall
    /\ \E dl \in 0..MaxLen, sl \in 0..MaxLen, dt \in 1..MaxDt,
          st \in (-MaxStart)..MaxStart, mt \in 0..MaxTime :
         LET r == apply_max_time(Samples(dl), Samples(sl), dt, st, mt)
         IN  call' = [fn |-> "apply_max_time", batch_data_true |-> Samples(dl),
                      src_amp |-> Samples(sl), dt |-> dt, src_start_time |-> st,
                      max_time |-> mt, out_data |-> r[1], out_src_amp |-> r[2]]
    /\ UNCHANGED fwivars

CallCalcSurveyPad ==
    /\ call = NoCall
    /\ \E mt \in 0..MaxTime, dt \in 1..MaxDt, dim \in 1..MaxDim,
          vals \in [1..2 -> 0..MaxVel], cap \in 0..MaxCap :
         call' = [fn |-> "calc_survey_pad", max_time |-> mt, dt |-> dt,
                  model_dim |-> dim, model_vals |-> vals,
                  max_horiz_survey_pad |-> cap,
                  survey_pad |-> calc_survey_pad(mt, dt, dim, vals, cap)]
    /\ UNCHANGED fwivars

NextFn ==
    \/ CallExtractBatch
    \/ CallPoolData
    \/ CallApplyMaxTime
    \/ CallCalcSurveyPad

SpecFn == InitFn /\ [][NextFn]_vars

\* ------------------------------------------------- claims on the helpers
\* C2: every range extract_batch computes is well formed and bounded:
\* 0 <= batch_start <= batch_end <= num_shots and
\* batch_end - batch_start <= ceil(ceil(num_shots/num_superbatches)/num_batches).
C2_RangeBounded ==
    call.fn = "extract_batch" =>
        /\ 0 <= call.batch_start
        /\ call.batch_start <= call.batch_end
        /\ call.batch_end <= call.num_shots
        /\ call.batch_end - call.batch_start
             <= CeilDiv(CeilDiv(call.num_shots, call.num_superbatches),
                        call.num_batches)

C2_Witness ==
    /\ call.fn = "extract_batch"
    /\ call.num_shots = 10 /\ call.num_superbatches = 3 /\ call.num_batches = 3
    /\ call.superbatch_idx = 2 /\ call.batch_idx = 2
    /\ call.batch_start = 10 /\ call.batch_end = 10

IsExample(sb, b) ==
    /\ call.fn = "extract_batch"
    /\ call.num_shots = 10 /\ call.num_superbatches = 2 /\ call.num_batches = 2
    /\ call.superbatch_idx = sb /\ call.batch_idx = b

CallRange == <<call.batch_start, call.batch_end>>

\* C6 (as claimed): for 10 shots, 2 superbatches, 2 batches the ranges are
\* (0,0)->[0,3), (0,1)->[3,6), (1,0)->[5,8), (1,1)->[8,10).
C6_ExampleAsClaimed ==
    /\ IsExample(0, 0) => CallRange = <<0, 3>>
    /\ IsExample(0, 1) => CallRange = <<3, 6>>
    /\ IsExample(1, 0) => CallRange = <<5, 8>>
    /\ IsExample(1, 1) => CallRange = <<8, 10>>

\* C6 (amended): for 10 shots, 2 superbatches, 2 batches superbatch_size is
\* 5, batch_size is 3 and the ranges for (superbatch_idx, batch_idx) are
\* (0,0)->[0,3), (0,1)->[5,8), (1,0)->[3,6), (1,1)->[8,10).
C6_Example ==
    /\ SuperbatchSize(10, 2) = 5
    /\ BatchSize(10, 2, 2) = 3
    /\ IsExample(0, 0) => CallRange = <<0, 3>>
    /\ IsExample(0, 1) => CallRange = <<5, 8>>
    /\ IsExample(1, 0) => CallRange = <<3, 6>>
    /\ IsExample(1, 1) => CallRange = <<8, 10>>

C6_Witness == IsExample(0, 1) /\ CallRange = <<5, 8>>

\* twice pad_distance = max(model) * max_time_steps * dt
ClaimedPad2 ==
    Max(call.model_vals[1], call.model_vals[2]) * call.max_time * call.dt

\* C7: calc_survey_pad returns 2*ndims entries; with one spatial axis both
\* equal pad_distance; with two or more, entries 0 and 1 equal pad_distance
\* and every later entry equals min(pad_distance, max_horiz_survey_pad), so
\* is at most the cap; no entry is negative.
C7_SurveyPad ==
    call.fn = "calc_survey_pad" =>
        LET ndims == call.model_dim - 1
            pad == call.survey_pad
            cap2 == 2 * call.max_horiz_survey_pad
        IN  /\ Len(pad) = 2 * ndims
            /\ ndims = 1 => pad = <<ClaimedPad2, ClaimedPad2>>
            /\ ndims >= 2 =>
                 /\ pad[1] = ClaimedPad2 /\ pad[2] = ClaimedPad2
                 /\ \A i \in 3..Len(pad) :
                      /\ pad[i] = Min(ClaimedPad2, cap2)
                      /\ pad[i] <= cap2
            /\ \A i \in 1..Len(pad) : pad[i] >= 0

C7_Witness ==
    /\ call.fn = "calc_survey_pad"
    /\ call.model_dim = 3
    /\ call.survey_pad[1] > 2 * call.max_horiz_survey_pad
    /\ call.survey_pad[3] = 2 * call.max_horiz_survey_pad
    /\ call.survey_pad[4] = 2 * call.max_horiz_survey_pad

\* round(a / b) for b >= 1, halves to the even neighbour
RoundDiv(a, b) ==
    LET f == a \div b
        r == a % b
    IN  IF 2 * r < b THEN f
        ELSE IF 2 * r > b THEN f + 1
        ELSE IF f % 2 = 0 THEN f ELSE f + 1

RECURSIVE SumOver(_, _)
SumOver(data, idx) ==
    IF idx = {} THEN 0
    ELSE LET t == CHOOSE x \in idx : TRUE
         IN  data[t] + SumOver(data, idx \ {t})

C10_NegativeLengthEmpty ==
    call.fn = "apply_max_time" =>
        LET n == MaxSrcAmpTime(call.dt, call.src_start_time, call.max_time)
        IN  /\ call.out_data
                 = SubSeq(call.batch_data_true, 1,
                          Min(call.max_time, Len(call.batch_data_true)))
            /\ n >= 0 => call.out_src_amp
                           = SubSeq(call.src_amp, 1, Min(n, Len(call.src_amp)))
            /\ n < 0 => call.out_src_amp = <<>>

====
